---- MODULE Spec2Model ----
(***************************************************************************)
(* InvestmentCalculator (case_study_1_ISC.py): compound-interest corpus    *)
(* and its inflation-adjusted value, computed on Python floats.            *)
(*                                                                         *)
(* Python's float is IEEE-754 binary64.  TLC's integers are 32 bits wide,  *)
(* so a 53-bit significand is kept as an arbitrary-precision natural: a    *)
(* little-endian sequence of 10-bit limbs without leading zero limbs       *)
(* (<<>> is 0).  Every float operation of the source is computed exactly   *)
(* and rounded once, to nearest with ties to even, as binary64 does.       *)
(***************************************************************************)
EXTENDS Integers, Sequences, FiniteSets, Bags, TLC

(***************************************************************************)
(* Arbitrary-precision naturals.                                           *)
(***************************************************************************)
LimbBase == 1024
LimbBits == 10

Pow2(n) == IF n = 0 THEN 1 ELSE 2 ^ n

\* a without its leading zero limbs
BNorm(a) ==
    SubSeq(a, 1, Len(a) - Cardinality({i \in 1..Len(a) : \A j \in i..Len(a) : a[j] = 0}))

RECURSIVE BFromInt(_)
BFromInt(n) == IF n = 0 THEN <<>> ELSE <<n % LimbBase>> \o BFromInt(n \div LimbBase)

Limb(a, i) == IF i <= Len(a) THEN a[i] ELSE 0

\* -1, 0, 1 as a < b, a = b, a > b (both normalised): decided by the highest
\* limb in which they differ
CmpAt(a, b, top) ==
    IF top = {} THEN 0 ELSE IF \E i \in top : a[i] < b[i] THEN -1 ELSE 1
BCmp(a, b) ==
    IF Len(a) < Len(b) THEN -1
    ELSE IF Len(a) > Len(b) THEN 1
    ELSE CmpAt(a, b, {i \in 1..Len(a) : a[i] # b[i] /\ \A j \in (i + 1)..Len(a) : a[j] = b[j]})

\* The carry chains below split the limb range in halves, and each half is
\* computed before the next is entered, so that the recursion stays shallow.
RECURSIVE CarryRange(_, _, _, _)
\* L followed by limbs mid+1..hi, L being the limbs up to mid and their carry out
CarryJoin(L, col, mid, hi) ==
    IF L = <<>> THEN <<>>
    ELSE SubSeq(L, 1, Len(L) - 1) \o CarryRange(col, mid + 1, hi, L[Len(L)])

\* limbs lo..hi of the number whose columns are col[1], col[2], ... (each below
\* 2^30) plus c, followed by the carry out
CarryRange(col, lo, hi, c) ==
    IF lo > hi THEN <<c>>
    ELSE IF lo = hi
    THEN LET s == col[lo] + c
         IN <<s % LimbBase, s \div LimbBase>>
    ELSE CarryJoin(CarryRange(col, lo, (lo + hi) \div 2, c), col, (lo + hi) \div 2, hi)

\* the number with columns col[1..n]
CarryOut(r, n) == BNorm(SubSeq(r, 1, n) \o BFromInt(r[n + 1]))
BCarry(col, n) == CarryOut(CarryRange(col, 1, n, 0), n)

BAdd(a, b) ==
    LET n == IF Len(a) > Len(b) THEN Len(a) ELSE Len(b)
    IN BCarry([i \in 1..n |-> Limb(a, i) + Limb(b, i)], n)

RECURSIVE SubRange(_, _, _, _, _)
SubJoin(L, a, b, mid, hi) ==
    IF L = <<>> THEN <<>>
    ELSE SubSeq(L, 1, Len(L) - 1) \o SubRange(a, b, mid + 1, hi, L[Len(L)])

\* limbs lo..hi of a - b - c, followed by the borrow out
SubRange(a, b, lo, hi, c) ==
    IF lo > hi THEN <<c>>
    ELSE IF lo = hi
    THEN LET s == a[lo] - Limb(b, lo) - c
         IN IF s < 0 THEN <<s + LimbBase, 1>> ELSE <<s, 0>>
    ELSE SubJoin(SubRange(a, b, lo, (lo + hi) \div 2, c), a, b, (lo + hi) \div 2, hi)

\* a - b for a >= b
BSub(a, b) == BNorm(SubRange(a, b, 1, Len(a), 0))

Zeros(n) == [i \in 1..n |-> 0]

\* a * LimbBase^n
BShiftLimbs(a, n) == IF a = <<>> THEN <<>> ELSE Zeros(n) \o a

\* column k of the product: the sum of a[i] * b[k + 1 - i].  The sum of a family
\* of naturals is the cardinality of the bag holding item i that often, plus one
\* each to keep the counts positive.  Below 2^30 for operands under 1000 limbs.
MulColumn(a, b, k) ==
    LET lo == IF k + 1 - Len(b) > 1 THEN k + 1 - Len(b) ELSE 1
        hi == IF k < Len(a) THEN k ELSE Len(a)
    IN BagCardinality([i \in lo..hi |-> a[i] * b[k + 1 - i] + 1]) - (hi - lo + 1)

BMul(a, b) ==
    IF a = <<>> \/ b = <<>> THEN <<>>
    ELSE LET n == Len(a) + Len(b) - 1
         IN BCarry([k \in 1..n |-> MulColumn(a, b, k)], n)

\* a * k for 0 <= k < 2^20
BMulSmall(a, k) == IF k = 0 THEN <<>> ELSE BCarry([i \in 1..Len(a) |-> a[i] * k], Len(a))

RECURSIVE BPow(_, _)
\* a^n by squaring
Square(a) == BMul(a, a)
BPow(a, n) == IF n = 0 THEN <<1>>
              ELSE IF n % 2 = 1 THEN BMul(Square(BPow(a, n \div 2)), a)
              ELSE Square(BPow(a, n \div 2))

RECURSIVE IntBitLen(_)
IntBitLen(n) == IF n = 0 THEN 0 ELSE 1 + IntBitLen(n \div 2)

BBitLen(a) == IF a = <<>> THEN 0 ELSE LimbBits * (Len(a) - 1) + IntBitLen(a[Len(a)])

\* a * 2^n
BShl(a, n) == BShiftLimbs(BMulSmall(a, Pow2(n % LimbBits)), n \div LimbBits)

\* floor(a / 2^n)
BShr(a, n) ==
    LET q == n \div LimbBits
        r == n % LimbBits
        d == Pow2(r)
        u == Pow2(LimbBits - r)
        m == Len(a) - q
    IN IF m <= 0 THEN <<>>
       ELSE BNorm([i \in 1..m |-> (a[q + i] \div d) + (Limb(a, q + i + 1) % d) * u])

\* bit n (from 0) of a
BBit(a, n) == (Limb(a, n \div LimbBits + 1) \div Pow2(n % LimbBits)) % 2

\* a mod 2^n = 0
BLowIsZero(a, n) ==
    /\ \A i \in 1..(n \div LimbBits) : Limb(a, i) = 0
    /\ Limb(a, n \div LimbBits + 1) % Pow2(n % LimbBits) = 0

BIsOdd(a) == a # <<>> /\ a[1] % 2 = 1

\* the number of trailing zero bits of a > 0
TrailingZeros(a) ==
    CHOOSE z \in 0..(BBitLen(a) - 1) : BBit(a, z) = 1 /\ BLowIsZero(a, z)

(***************************************************************************)
(* Python float: IEEE-754 binary64.  A value is                            *)
(*   [k |-> "num", s |-> sign, m |-> significand, e |-> exponent]          *)
(* standing for s * m * 2^e with m < 2^53 and e >= -1074 (m >= 2^52 unless *)
(* e = -1074; zero is m = <<>>, e = 0), or k = "inf" (s its sign), or      *)
(* k = "nan".  The comparisons take any s * m * 2^e, so that they compare a *)
(* float with the exact value of a Python int, as Python does.             *)
(***************************************************************************)
Prec == 53
EMin == 1074
EMax == 1023

TwoPrec == BShl(<<1>>, Prec)

FZero == [k |-> "num", s |-> 1, m |-> <<>>, e |-> 0]
FInf == [k |-> "inf", s |-> 1, m |-> <<>>, e |-> 0]
FNan == [k |-> "nan", s |-> 1, m |-> <<>>, e |-> 0]
\* the outcome of a float operation that raises OverflowError; an operation on it
\* is not carried out (the exception propagates)
Overflow == [k |-> "overflow", s |-> 1, m |-> <<>>, e |-> 0]
Raises(a) == a.k = "overflow"

\* floor(log2(N / D)) for N, D > 0
\* d or d - 1 as N / D >= 2^d or not
Log2From(N, D, d) ==
    IF (IF d >= 0 THEN BCmp(N, BShl(D, d)) ELSE BCmp(BShl(N, -d), D)) >= 0 THEN d ELSE d - 1
Log2Floor(N, D) ==
    IF D = <<1>> THEN BBitLen(N) - 1 ELSE Log2From(N, D, BBitLen(N) - BBitLen(D))

RECURSIVE DivFix(_, _, _)
\* <<q + floor(R / Dj), R mod Dj>>, by subtraction (the estimate q is short by
\* 2 at most)
DivFix(R, Dj, q) ==
    IF BCmp(R, Dj) >= 0 THEN DivFix(BSub(R, Dj), Dj, q + 1) ELSE <<q, R>>

\* One step of schoolbook long division: <<floor(R / Dj), R mod Dj>> for
\* Dj = D * LimbBase^(j-1) and R < Dj * LimbBase.  The quotient limb is estimated
\* from the three leading limbs of R and the two of D, never too high.
\* the limbs n+1, n, n-1 of R over the two leading limbs of D, plus one
DivEstimate(R, D, n) ==
    ((Limb(R, n + 1) * LimbBase + Limb(R, n)) * LimbBase
        + (IF n > 1 THEN Limb(R, n - 1) ELSE 0))
    \div (D[Len(D)] * LimbBase + (IF Len(D) > 1 THEN D[Len(D) - 1] ELSE 0) + 1)
DivStepFrom(R, Dj, q) == DivFix(BSub(R, BMulSmall(Dj, q)), Dj, q)
DivStep(R, D, j) ==
    IF R = <<>> THEN <<0, R>>
    ELSE DivStepFrom(R, BShiftLimbs(D, j - 1), DivEstimate(R, D, Len(D) + j - 1))

RECURSIVE DivLimbs(_, _, _, _)
\* the quotient limbs lo..mid after H, the limbs above mid followed by the
\* remainder so far
JoinLimbs(L, H) == SubSeq(L, 1, Len(L) - 1) \o SubSeq(H, 1, Len(H) - 1) \o <<L[Len(L)]>>
DivJoin(H, D, mid, lo) ==
    IF H = <<>> THEN <<>> ELSE JoinLimbs(DivLimbs(H[Len(H)], D, mid, lo), H)

\* the limbs lo..hi of floor(R / D), followed by R mod D, for R < D * LimbBase^hi
DivLimbs(R, D, hi, lo) ==
    IF hi < lo THEN <<R>>
    ELSE IF hi = lo THEN DivStep(R, D, hi)
    ELSE DivJoin(DivLimbs(R, D, hi, (hi + lo) \div 2 + 1), D, (hi + lo) \div 2, lo)

\* <<floor(N / D), N mod D>> for D > 0
SplitQuotient(qr, n) == IF qr = <<>> THEN <<>> ELSE <<BNorm(SubSeq(qr, 1, n)), qr[n + 1]>>
BDivMod(N, D) ==
    IF D = <<1>> THEN <<N, <<>>>>
    ELSE IF Len(N) < Len(D) THEN <<<<>>, N>>
    ELSE SplitQuotient(DivLimbs(N, D, Len(N) - Len(D) + 1, 1), Len(N) - Len(D) + 1)

\* q or q + 1: the quotient q rounded to nearest, ties to even, c being -1, 0, 1
\* as the discarded part is below, at, above one half
RoundUp(q, c) ==
    IF c > 0 \/ (c = 0 /\ BIsOdd(q)) THEN BAdd(q, <<1>>) ELSE q

\* qr = <<floor(N / D), N mod D>> rounded
RoundQuotient(qr, D) ==
    IF qr[2] = <<>> THEN qr[1] ELSE RoundUp(qr[1], BCmp(BShl(qr[2], 1), D))

\* N * 2^sh / D rounded to the nearest integer, ties to even
RoundNearestEven(N, D, sh) ==
    IF sh >= 0 THEN RoundQuotient(BDivMod(BShl(N, sh), D), D)
    ELSE IF D = <<1>>
    THEN RoundUp(BShr(N, -sh),
                 IF BBit(N, -sh - 1) = 0 THEN -1
                 ELSE IF BLowIsZero(N, -sh - 1) THEN 0 ELSE 1)
    ELSE RoundQuotient(BDivMod(N, BShl(D, -sh)), BShl(D, -sh))

\* the value q * 2^x, q < 2^53 + 1 the rounded significand; Overflow beyond the
\* largest finite value
FPack(q, x) ==
    IF q = <<>> THEN FZero
    ELSE IF BBitLen(q) + x - 1 > EMax THEN Overflow
    ELSE IF q = TwoPrec THEN [k |-> "num", s |-> 1, m |-> BShr(q, 1), e |-> x + 1]
    ELSE [k |-> "num", s |-> 1, m |-> q, e |-> x]

\* the exponent of the last place of a value in [2^t, 2^(t+1)): subnormal below
\* 2^-1022
LastPlace(t) == IF t - (Prec - 1) < -EMin THEN -EMin ELSE t - (Prec - 1)

\* the binary64 nearest to N / D * 2^e (N, D > 0, D odd)
FRoundOdd(N, D, e) ==
    FPack(RoundNearestEven(N, D, e - LastPlace(Log2Floor(N, D) + e)),
          LastPlace(Log2Floor(N, D) + e))

\* the same with the powers of two taken out of the divisor first
FRound(N, D, e) ==
    IF D = <<1>> THEN FRoundOdd(N, D, e)
    ELSE FRoundOdd(N, BShr(D, TrailingZeros(D)), e - TrailingZeros(D))

IsNum(a) == a.k = "num"
IsZero(a) == a.k = "num" /\ a.m = <<>>

\* a Python int n >= 0 as a value
FInt(n) == IF n = 0 THEN FZero ELSE FRound(BFromInt(n), <<1>>, 0)
FNeg(a) == IF a.k = "nan" \/ IsZero(a) THEN a ELSE [a EXCEPT !.s = -a.s]

\* -1, 0, 1 for the magnitudes of two "num" values
CmpMag(a, b) ==
    IF a.m = <<>> \/ b.m = <<>>
    THEN (IF a.m = b.m THEN 0 ELSE IF a.m = <<>> THEN -1 ELSE 1)
    ELSE LET ta == BBitLen(a.m) + a.e
             tb == BBitLen(b.m) + b.e
         IN IF ta < tb THEN -1 ELSE IF ta > tb THEN 1
            ELSE IF a.e >= b.e THEN BCmp(BShl(a.m, a.e - b.e), b.m)
            ELSE BCmp(a.m, BShl(b.m, b.e - a.e))

\* a < b; every comparison with nan is False
FLt(a, b) ==
    IF a.k \notin {"num", "inf"} \/ b.k \notin {"num", "inf"} THEN FALSE
    ELSE IF a.s # b.s THEN a.s < b.s
    ELSE IF a.k = "inf" \/ b.k = "inf"
         THEN (IF a.s = 1 THEN a.k = "num" /\ b.k = "inf" ELSE a.k = "inf" /\ b.k = "num")
    ELSE IF a.s = 1 THEN CmpMag(a, b) < 0 ELSE CmpMag(a, b) > 0

\* a == b, compared by value (an int's exact value need not be a binary64)
FEq(a, b) ==
    /\ a.k \in {"num", "inf"} /\ b.k = a.k /\ b.s = a.s
    /\ (a.k = "inf" \/ CmpMag(a, b) = 0)
FLe(a, b) == FLt(a, b) \/ FEq(a, b)

\* the magnitude r of an arithmetic result with the sign s; beyond the largest
\* finite value it is inf
Signed(r, s) ==
    IF r.k = "overflow" THEN [FInf EXCEPT !.s = s]
    ELSE IF IsZero(r) THEN r ELSE [r EXCEPT !.s = s]

\* a / b for b # 0 (the source never divides by zero); a result beyond the
\* largest finite value is inf
FDiv(a, b) ==
    IF Raises(a) \/ Raises(b) THEN Overflow
    ELSE IF a.k = "nan" \/ b.k = "nan" THEN FNan
    ELSE IF a.k = "inf" THEN (IF b.k = "inf" THEN FNan ELSE [FInf EXCEPT !.s = a.s * b.s])
    ELSE IF b.k = "inf" \/ IsZero(a) THEN FZero
    ELSE Signed(FRound(a.m, b.m, a.e - b.e), a.s * b.s)

FMul(a, b) ==
    IF Raises(a) \/ Raises(b) THEN Overflow
    ELSE IF a.k = "nan" \/ b.k = "nan" THEN FNan
    ELSE IF a.k = "inf" \/ b.k = "inf"
         THEN (IF IsZero(a) \/ IsZero(b) THEN FNan ELSE [FInf EXCEPT !.s = a.s * b.s])
    ELSE IF IsZero(a) \/ IsZero(b) THEN FZero
    ELSE Signed(FRound(BMul(a.m, b.m), <<1>>, a.e + b.e), a.s * b.s)

\* a + b for a, b >= 0 (the source adds 1 to a rate in [0, 1])
FAdd(a, b) ==
    IF Raises(a) \/ Raises(b) THEN Overflow
    ELSE IF a.k = "nan" \/ b.k = "nan" THEN FNan
    ELSE IF a.k = "inf" \/ b.k = "inf" THEN FInf
    ELSE IF IsZero(a) THEN b
    ELSE IF IsZero(b) THEN a
    ELSE IF a.e < b.e THEN Signed(FRound(BAdd(a.m, BShl(b.m, b.e - a.e)), <<1>>, a.e), 1)
    ELSE Signed(FRound(BAdd(BShl(a.m, a.e - b.e), b.m), <<1>>, b.e), 1)

\* (m 2^e)^n for m = odd * 2^z
PowOdd(a, z, n) == FRound(BPow(BShr(a.m, z), n), <<1>>, (a.e + z) * n)

\* a ** n for a float a >= 0 and a Python int n >= 0: float_pow answers 1.0 for
\* n = 0 and otherwise calls C pow, whose result is taken as correctly rounded;
\* a finite a with a result beyond the largest finite value raises OverflowError
FPow(a, n) ==
    IF Raises(a) THEN Overflow
    ELSE IF n = 0 THEN FInt(1)
    ELSE IF a.k # "num" \/ IsZero(a) THEN a
    ELSE PowOdd(a, TrailingZeros(a.m), n)

\* format(a, ".2f") of a finite a >= 0, as the number of hundredths: Python
\* rounds the exact binary value correctly (ties to even)
Fmt2(a) == IF IsZero(a) THEN <<>> ELSE RoundNearestEven(BMulSmall(a.m, 100), <<1>>, a.e)

(***************************************************************************)
(* Python numbers: a type and the exact value.  The value of a float is a  *)
(* binary64; the value of an int (or of a Decimal) is the integer itself,  *)
(* s * m * 2^0 with m of any size.                                         *)
(***************************************************************************)
PyFloat(f) == [t |-> "float", v |-> f]
PyBigInt(s, m) == [t |-> "int", v |-> [k |-> "num", s |-> IF m = <<>> THEN 1 ELSE s, m |-> m, e |-> 0]]
PyInt(n) == IF n >= 0 THEN PyBigInt(1, BFromInt(n)) ELSE PyBigInt(-1, BFromInt(-n))
\* a number that is neither int nor float (decimal.Decimal compares with both)
PyDecimal(n) == [t |-> "Decimal", v |-> PyInt(n).v]
\* isinstance(x, (int, float))
IsIntOrFloat(x) == x.t \in {"int", "float"}

\* the float an operand becomes in mixed arithmetic: an int is rounded to the
\* nearest binary64
IntToFloat(r, s) == IF Raises(r) THEN r ELSE [r EXCEPT !.s = s]
float_of(x) ==
    IF x.t = "float" \/ IsZero(x.v) THEN x.v
    ELSE IntToFloat(FRound(x.v.m, <<1>>, 0), x.v.s)

None == [t |-> "NoneType"]

\* the literals of the source
Lit_0_05 == FRound(<<5>>, <<100>>, 0)
Lit_12_00 == PyFloat(FInt(12))
Lit_7_00 == PyFloat(FInt(7))
ValidFrequencies == {1, 2, 4, 12}

(***************************************************************************)
(* class InvestmentCalculator                                              *)
(***************************************************************************)
\* __init__: the four assertions in order, then the four assignments.  The
\* outcome is the instance, or the AssertionError that leaves no instance.
AssertionError == [t |-> "AssertionError"]

\* __init__ without the assertion on compound_frequency
InvestmentCalculator_AnyFrequency(principal_amount, interest_rate, inflation_rate, compound_frequency) ==
    IF ~(FLe(Lit_0_05, principal_amount.v) /\ IsIntOrFloat(principal_amount))
    THEN AssertionError
    ELSE IF ~(FLe(FZero, interest_rate.v) /\ FLe(interest_rate.v, FInt(100))
              /\ IsIntOrFloat(interest_rate))
    THEN AssertionError
    ELSE IF ~(FLe(FZero, inflation_rate.v) /\ FLe(inflation_rate.v, FInt(100))
              /\ IsIntOrFloat(inflation_rate))
    THEN AssertionError
    ELSE [t |-> "InvestmentCalculator",
          principal_amount |-> principal_amount,
          interest_rate |-> FDiv(interest_rate.v, FInt(100)),
          inflation_rate |-> FDiv(inflation_rate.v, FInt(100)),
          compound_frequency |-> compound_frequency]

\* __init__ storing the inflation rate as the percentage given
InvestmentCalculator_Percent(principal_amount, interest_rate, inflation_rate, compound_frequency) ==
    IF ~(FLe(Lit_0_05, principal_amount.v) /\ IsIntOrFloat(principal_amount))
    THEN AssertionError
    ELSE IF ~(FLe(FZero, interest_rate.v) /\ FLe(interest_rate.v, FInt(100))
              /\ IsIntOrFloat(interest_rate))
    THEN AssertionError
    ELSE IF ~(FLe(FZero, inflation_rate.v) /\ FLe(inflation_rate.v, FInt(100))
              /\ IsIntOrFloat(inflation_rate))
    THEN AssertionError
    ELSE IF ~(compound_frequency \in ValidFrequencies)
    THEN AssertionError
    ELSE [t |-> "InvestmentCalculator",
          principal_amount |-> principal_amount,
          interest_rate |-> FDiv(interest_rate.v, FInt(100)),
          inflation_rate |-> float_of(inflation_rate),
          compound_frequency |-> compound_frequency]

InvestmentCalculator(principal_amount, interest_rate, inflation_rate, compound_frequency) ==
    IF ~(FLe(Lit_0_05, principal_amount.v) /\ IsIntOrFloat(principal_amount))
    THEN AssertionError
    ELSE IF ~(FLe(FZero, interest_rate.v) /\ FLe(interest_rate.v, FInt(100))
              /\ IsIntOrFloat(interest_rate))
    THEN AssertionError
    ELSE IF ~(FLe(FZero, inflation_rate.v) /\ FLe(inflation_rate.v, FInt(100))
              /\ IsIntOrFloat(inflation_rate))
    THEN AssertionError
    ELSE IF ~(compound_frequency \in ValidFrequencies)
    THEN AssertionError
    ELSE [t |-> "InvestmentCalculator",
          principal_amount |-> principal_amount,
          interest_rate |-> FDiv(interest_rate.v, FInt(100)),
          inflation_rate |-> FDiv(inflation_rate.v, FInt(100)),
          compound_frequency |-> compound_frequency]

\* final_corpus with n + t for the exponent n * t
final_corpus_SumExponent(self, years) ==
    FMul(float_of(self.principal_amount),
         FPow(FAdd(FInt(1), FDiv(self.interest_rate, FInt(self.compound_frequency))),
              self.compound_frequency + years))

\* final_corpus with t for the exponent n * t
final_corpus_YearsExponent(self, years) ==
    FMul(float_of(self.principal_amount),
         FPow(FAdd(FInt(1), FDiv(self.interest_rate, FInt(self.compound_frequency))),
              years))

\* final_corpus with n * n for the exponent n * t
final_corpus_FrequencyExponent(self, years) ==
    FMul(float_of(self.principal_amount),
         FPow(FAdd(FInt(1), FDiv(self.interest_rate, FInt(self.compound_frequency))),
              self.compound_frequency * self.compound_frequency))

\* A = P (1 + r/n)^(nt)
final_corpus(self, years) ==
    FMul(float_of(self.principal_amount),
         FPow(FAdd(FInt(1), FDiv(self.interest_rate, FInt(self.compound_frequency))),
              self.compound_frequency * years))

\* inflation_adjusted_corpus multiplying by the inflation factor
inflation_adjusted_corpus_Multiply(self, years) ==
    FMul(final_corpus(self, years), FPow(FAdd(FInt(1), self.inflation_rate), years))

\* inflation_adjusted_corpus deflating by the interest rate
inflation_adjusted_corpus_InterestRate(self, years) ==
    FDiv(final_corpus(self, years), FPow(FAdd(FInt(1), self.interest_rate), years))

inflation_adjusted_corpus(self, years) ==
    FDiv(final_corpus(self, years), FPow(FAdd(FInt(1), self.inflation_rate), years))

\* the methods a call runs, in order: inflation_adjusted_corpus calls final_corpus
final_corpus_calls(years) == <<[method |-> "final_corpus", years |-> years]>>
inflation_adjusted_corpus_calls(years) ==
    <<[method |-> "inflation_adjusted_corpus", years |-> years]>> \o final_corpus_calls(years)

\* A dict is its keys in insertion order and its values.  d[k] = v keeps the
\* place of a key already present and appends a new one.
EmptyDict == [keys |-> <<>>, vals |-> <<>>]
KeyIndex(d, k) == {i \in 1..Len(d.keys) : d.keys[i] = k}
\* d[k] = v moving a key already present to the end
DictSet_MoveToEnd(d, k, v) ==
    LET keep == {i \in 1..Len(d.keys) : d.keys[i] # k}
        Kept(q) == [i \in 1..Cardinality(keep) |->
                       q[CHOOSE j \in keep : Cardinality({h \in keep : h < j}) = i - 1]]
    IN [keys |-> Append(Kept(d.keys), k), vals |-> Append(Kept(d.vals), v)]

DictSet(d, k, v) ==
    IF KeyIndex(d, k) # {}
    THEN [d EXCEPT !.vals[CHOOSE i \in KeyIndex(d, k) : TRUE] = v]
    ELSE [keys |-> Append(d.keys, k), vals |-> Append(d.vals, v)]

RECURSIVE show_returns_loop_Memoized(_, _, _, _, _)
\* the for loop skipping a year whose pair is already stored
show_returns_loop_Memoized(self, years_list, i, returns, calls) ==
    IF i > Len(years_list) THEN [raised |-> FALSE, returns |-> returns, calls |-> calls]
    ELSE IF KeyIndex(returns, years_list[i]) # {}
    THEN show_returns_loop_Memoized(self, years_list, i + 1, returns, calls)
    ELSE show_returns_loop_Memoized(self, years_list, i + 1,
             DictSet(returns, years_list[i],
                     <<final_corpus(self, years_list[i]),
                       inflation_adjusted_corpus(self, years_list[i])>>),
             calls \o final_corpus_calls(years_list[i])
                   \o inflation_adjusted_corpus_calls(years_list[i]))

RECURSIVE show_returns_loop(_, _, _, _, _)
\* one round of the loop, for item i of the list: final_val and adjusted_val are
\* the values the two calls computed
show_returns_body(self, years_list, i, returns, calls, years, final_val, adjusted_val) ==
    IF Raises(final_val)
    THEN [raised |-> TRUE, returns |-> returns,
          calls |-> calls \o final_corpus_calls(years)]
    ELSE IF Raises(adjusted_val)
    THEN [raised |-> TRUE, returns |-> returns,
          calls |-> calls \o final_corpus_calls(years)
                          \o inflation_adjusted_corpus_calls(years)]
    ELSE show_returns_loop(self, years_list, i + 1,
                           DictSet(returns, years, <<final_val, adjusted_val>>),
                           calls \o final_corpus_calls(years)
                                 \o inflation_adjusted_corpus_calls(years))

\* the for loop from item i on: each round computes both values and stores the
\* pair; a raised OverflowError ends the call
show_returns_loop(self, years_list, i, returns, calls) ==
    IF i > Len(years_list) THEN [raised |-> FALSE, returns |-> returns, calls |-> calls]
    ELSE show_returns_body(self, years_list, i, returns, calls, years_list[i],
                           final_corpus(self, years_list[i]),
                           inflation_adjusted_corpus(self, years_list[i]))

show_returns(self, years_list) == show_returns_loop(self, years_list, 1, EmptyDict, <<>>)

(***************************************************************************)
(* The calculator used as a library: a caller constructs one instance and  *)
(* then calls its methods, taking each result before the next call.        *)
(***************************************************************************)
\* the largest year passed to a method, and the longest list passed to
\* show_returns
MaxYears == 5
MaxLen == 3

\* the first int that no binary64 holds
FirstInexactInt == BAdd(BShl(<<1>>, Prec), <<1>>)

Principals ==
    {PyFloat(FRound(<<1>>, <<100>>, 0)), PyInt(100), PyBigInt(1, FirstInexactInt),
     PyDecimal(100)}
InterestRates == {PyInt(0), PyFloat(FRound(<<1>>, <<1>>, -60)), Lit_12_00, PyInt(150)}
InflationRates == {PyInt(-5), PyInt(0), Lit_7_00}
Frequencies == {1, 3, 12}
Years == 0..MaxYears
\* lists of years, unsorted and with duplicates
YearsLists ==
    UNION {[1..n -> {1, MaxYears}] : n \in 0..MaxLen}

VARIABLES
    pc,         \* "new", "ready" (an instance exists), "returned" (a call ended), "failed"
    args,       \* the arguments given to the constructor
    self,       \* the instance, None before construction and after a failed one
    raised,     \* the exception that ended the last operation, or None
    ret,        \* the last call: method, argument, result and methods run
    line,       \* the script: the line typed at the prompt, None before it is read
    investment_amount,  \* the script: the principal it decided on
    stdout      \* the script: what it printed

vars == <<pc, args, self, raised, ret, line, investment_amount, stdout>>
script == <<line, investment_amount, stdout>>

NoCall == [method |-> "none"]
OverflowError == [t |-> "OverflowError"]

Init ==
    /\ pc = "new"
    /\ args = None
    /\ self = None
    /\ raised = None
    /\ ret = NoCall
    /\ line = None /\ investment_amount = None /\ stdout = <<>>

\* investment = InvestmentCalculator(principal_amount, interest_rate, inflation_rate, compound_frequency)
Construct(principal_amount, interest_rate, inflation_rate, compound_frequency) ==
    /\ pc = "new"
    /\ args' = [principal_amount |-> principal_amount, interest_rate |-> interest_rate,
                inflation_rate |-> inflation_rate, compound_frequency |-> compound_frequency]
    /\ \E obj \in {InvestmentCalculator(principal_amount, interest_rate, inflation_rate,
                                         compound_frequency)} :
          IF obj = AssertionError
          THEN self' = None /\ raised' = AssertionError /\ pc' = "failed"
          ELSE self' = obj /\ raised' = None /\ pc' = "ready"
    /\ UNCHANGED <<ret, script>>

\* the outcome of a call that computes the float v
Outcome(v) == IF Raises(v) THEN OverflowError ELSE None

\* investment.final_corpus(years)
FinalCorpus(years) ==
    /\ pc = "ready"
    /\ \E v \in {final_corpus(self, years)} :
          /\ ret' = [method |-> "final_corpus", years |-> years, val |-> v,
                     calls |-> final_corpus_calls(years)]
          /\ raised' = Outcome(v)
    /\ pc' = "returned"
    /\ UNCHANGED <<args, self, script>>

\* investment.inflation_adjusted_corpus(years)
InflationAdjustedCorpus(years) ==
    /\ pc = "ready"
    /\ \E v \in {inflation_adjusted_corpus(self, years)} :
          /\ ret' = [method |-> "inflation_adjusted_corpus", years |-> years, val |-> v,
                     calls |-> inflation_adjusted_corpus_calls(years)]
          /\ raised' = Outcome(v)
    /\ pc' = "returned"
    /\ UNCHANGED <<args, self, script>>

\* investment.show_returns(years_list)
ShowReturns(years_list) ==
    /\ pc = "ready"
    /\ \E r \in {show_returns(self, years_list)} :
          /\ ret' = [method |-> "show_returns", years_list |-> years_list,
                     returns |-> r.returns, calls |-> r.calls]
          /\ raised' = IF r.raised THEN OverflowError ELSE None
    /\ pc' = "returned"
    /\ UNCHANGED <<args, self, script>>

\* the caller takes the result and goes on with the same instance
Return ==
    /\ pc = "returned"
    /\ pc' = "ready"
    /\ ret' = NoCall
    /\ raised' = None
    /\ UNCHANGED <<args, self, script>>

Next ==
    \/ \E p \in Principals, i \in InterestRates, f \in InflationRates, n \in Frequencies :
          Construct(p, i, f, n)
    \/ \E years \in Years : FinalCorpus(years)
    \/ \E years \in Years : InflationAdjustedCorpus(years)
    \/ \E years_list \in YearsLists : ShowReturns(years_list)
    \/ Return

Spec == Init /\ [][Next]_vars

(***************************************************************************)
(* The script under __main__: it reads one line, decides on the principal, *)
(* constructs the calculator with the default rates, computes the returns  *)
(* for the durations and prints them.  A string is a sequence of           *)
(* characters.                                                             *)
(***************************************************************************)
\* the longest line typed
MaxLineLen == 2

\* the characters typed: white space, sign, point, digits and any other one
Chars == {" ", "-", ".", "1", "5", "x"}
Lines == UNION {[1..n -> Chars] : n \in 0..MaxLineLen}

IsSpace(c) == c = " "
IsDigit(c) == c \in {"0", "1", "2", "3", "4", "5", "6", "7", "8", "9"}
DigitValue(c) ==
    CASE c = "0" -> 0 [] c = "1" -> 1 [] c = "2" -> 2 [] c = "3" -> 3 [] c = "4" -> 4
      [] c = "5" -> 5 [] c = "6" -> 6 [] c = "7" -> 7 [] c = "8" -> 8 [] c = "9" -> 9

\* str.strip(): without the white space at both ends
strip(str) ==
    LET inked == {i \in 1..Len(str) : ~IsSpace(str[i])}
    IN IF inked = {} THEN <<>>
       ELSE SubSeq(str, CHOOSE i \in inked : \A j \in inked : i <= j,
                        CHOOSE i \in inked : \A j \in inked : j <= i)

\* the number of digits str has from position i on
RECURSIVE DigitRun(_, _)
DigitRun(str, i) ==
    IF i <= Len(str) /\ IsDigit(str[i]) THEN 1 + DigitRun(str, i + 1) ELSE 0

\* the digits str[i..j] read as a decimal integer
RECURSIVE Decimal(_, _, _)
Decimal(str, i, j) ==
    IF j < i THEN <<>>
    ELSE BAdd(BMulSmall(Decimal(str, i, j - 1), 10), BFromInt(DigitValue(str[j])))

ValueError == [t |-> "ValueError"]

\* float(str) for a string of the characters above: an optional sign, digits, an
\* optional point and digits, with a digit on one side of the point at least;
\* the value is the binary64 nearest to the decimal.  Anything else is a
\* ValueError.
float(str) ==
    LET body == strip(str)
        signed == body # <<>> /\ body[1] \in {"+", "-"}
        start == IF signed THEN 2 ELSE 1
        whole == DigitRun(body, start)
        point == start + whole <= Len(body) /\ body[start + whole] = "."
        frac == IF point THEN DigitRun(body, start + whole + 1) ELSE 0
        end == start + whole + (IF point THEN 1 + frac ELSE 0)
        digits == BAdd(BMul(Decimal(body, start, start + whole - 1), BPow(<<10>>, frac)),
                       Decimal(body, end - frac, end - 1))
        value == IF digits = <<>> THEN FZero ELSE FRound(digits, BPow(<<10>>, frac), 0)
    IN IF whole + frac = 0 \/ end # Len(body) + 1 THEN ValueError
       ELSE PyFloat(IF signed /\ body[1] = "-" THEN FNeg(value) ELSE value)

\* the try statement: what the script decides on for the line typed, and what it
\* prints
InvalidInputMessage == [text |-> "Invalid input, using default value of 100 rupees."]

\* the try statement with the condition of the conditional expression inverted
read_amount_Inverted(typed) ==
    IF strip(typed) # <<>> THEN [investment_amount |-> PyInt(100), printed |-> <<>>]
    ELSE IF float(strip(typed)) = ValueError
    THEN [investment_amount |-> PyInt(100), printed |-> <<InvalidInputMessage>>]
    ELSE [investment_amount |-> float(strip(typed)), printed |-> <<>>]

read_amount(typed) ==
    IF strip(typed) = <<>> THEN [investment_amount |-> PyInt(100), printed |-> <<>>]
    ELSE IF float(strip(typed)) = ValueError
    THEN [investment_amount |-> PyInt(100), printed |-> <<InvalidInputMessage>>]
    ELSE [investment_amount |-> float(strip(typed)), printed |-> <<>>]

\* list(range(start, stop, step)) for step > 0
Range(start, stop, step) ==
    [i \in 1..(IF stop > start THEN (stop - start + step - 1) \div step ELSE 0)
        |-> start + (i - 1) * step]
durations == Range(1, 41, 5)

\* the lines printed for the results: the year and both values with two decimals
ResultLines(results) ==
    [i \in 1..Len(results.keys) |->
        [years |-> results.keys[i],
         final_val |-> Fmt2(results.vals[i][1]),
         adj_val |-> Fmt2(results.vals[i][2])]]
\* the first line printed: the amount and both rates as percentages with two
\* decimals
HeaderLine(amount, obj) ==
    [investment_amount |-> amount,
     interest_rate |-> Fmt2(FMul(obj.interest_rate, FInt(100))),
     inflation_rate |-> Fmt2(FMul(obj.inflation_rate, FInt(100)))]

MainInit ==
    /\ pc = "main"
    /\ args = None
    /\ self = None
    /\ raised = None
    /\ ret = NoCall
    /\ line = None /\ investment_amount = None /\ stdout = <<>>

\* lines 101-106: input() gives the line typed
ReadAmount(typed) ==
    /\ pc = "main"
    /\ line' = typed
    /\ \E r \in {read_amount(typed)} :
          /\ investment_amount' = r.investment_amount
          /\ stdout' = stdout \o r.printed
    /\ pc' = "amount"
    /\ UNCHANGED <<args, self, raised, ret>>

\* line 102: input() at the end of the input raises EOFError, which no clause
\* catches
EOFError == [t |-> "EOFError"]
ReadEndOfInput ==
    /\ pc = "main"
    /\ raised' = EOFError
    /\ pc' = "failed"
    /\ UNCHANGED <<args, self, ret, script>>

\* line 108: investment = InvestmentCalculator(investment_amount)
ConstructMain ==
    /\ pc = "amount"
    /\ args' = [principal_amount |-> investment_amount, interest_rate |-> Lit_12_00,
                inflation_rate |-> Lit_7_00, compound_frequency |-> 1]
    /\ \E obj \in {InvestmentCalculator(investment_amount, Lit_12_00, Lit_7_00, 1)} :
          IF obj = AssertionError
          THEN self' = None /\ raised' = AssertionError /\ pc' = "failed"
          ELSE self' = obj /\ raised' = None /\ pc' = "constructed"
    /\ UNCHANGED <<ret, script>>

\* lines 109-110: results = investment.show_returns(durations)
ShowMain ==
    /\ pc = "constructed"
    /\ \E r \in {show_returns(self, durations)} :
          /\ ret' = [method |-> "show_returns", years_list |-> durations,
                     returns |-> r.returns, calls |-> r.calls]
          /\ IF r.raised
             THEN raised' = OverflowError /\ pc' = "failed"
             ELSE raised' = None /\ pc' = "shown"
    /\ UNCHANGED <<args, self, script>>

\* lines 112-117: the report
PrintMain ==
    /\ pc = "shown"
    /\ stdout' = stdout \o <<HeaderLine(investment_amount, self)>> \o ResultLines(ret.returns)
    /\ pc' = "done"
    /\ UNCHANGED <<args, self, raised, ret, line, investment_amount>>

MainNext ==
    \/ \E typed \in Lines : ReadAmount(typed)
    \/ ReadEndOfInput
    \/ ConstructMain
    \/ ShowMain
    \/ PrintMain

MainSpec == MainInit /\ [][MainNext]_vars

(***************************************************************************)
(* Construction                                                            *)
(***************************************************************************)
\* the arguments break a rule of the constructor
BelowMinimum(x) == FLt(x.v, Lit_0_05)
OutsidePercent(x) == FLt(x.v, FZero) \/ FLt(FInt(100), x.v)
Constructed == pc \in {"ready", "returned"}

\* C1: a construction whose principal is below 0.05, whose interest or inflation
\* percentage is outside [0, 100] or whose compounding frequency is not 1, 2, 4
\* or 12 ends in the AssertionError and leaves no instance
C1_InvalidArgumentsRejected ==
    (/\ pc # "new"
     /\ \/ BelowMinimum(args.principal_amount)
        \/ OutsidePercent(args.interest_rate)
        \/ OutsidePercent(args.inflation_rate)
        \/ args.compound_frequency \notin {1, 2, 4, 12})
    => (pc = "failed" /\ raised = AssertionError /\ self = None)

\* the rejected construction with the compounding frequency 3, the other
\* arguments valid
C1_Witness ==
    /\ pc = "failed" /\ raised = AssertionError /\ self = None
    /\ args.principal_amount = PyInt(100)
    /\ args.interest_rate = Lit_12_00
    /\ args.inflation_rate = Lit_7_00
    /\ args.compound_frequency = 3

\* C2: the instance holds the principal and the frequency given and the two
\* percentages divided by 100, all within their ranges, in every state after
\* construction, whatever calls were made
C2_StoredParameters ==
    Constructed =>
        /\ self.principal_amount = args.principal_amount
        /\ self.compound_frequency = args.compound_frequency
        /\ FEq(self.interest_rate, FDiv(args.interest_rate.v, FInt(100)))
        /\ FEq(self.inflation_rate, FDiv(args.inflation_rate.v, FInt(100)))
        /\ FLe(Lit_0_05, self.principal_amount.v)
        /\ FLe(FZero, self.interest_rate) /\ FLe(self.interest_rate, FInt(1))
        /\ FLe(FZero, self.inflation_rate) /\ FLe(self.inflation_rate, FInt(1))
        /\ self.compound_frequency \in {1, 2, 4, 12}

\* an instance with non-zero rates after a show_returns call
C2_Witness ==
    /\ pc = "returned" /\ ret.method = "show_returns" /\ Len(ret.years_list) = MaxLen
    /\ ~IsZero(self.interest_rate) /\ ~IsZero(self.inflation_rate)

(***************************************************************************)
(* final_corpus                                                            *)
(***************************************************************************)
Returned(method) == pc = "returned" /\ ret.method = method /\ raised = None

\* The formula in exact arithmetic.  With the stored rate r = m * 2^e (e <= 0),
\* n the frequency and k = n * years,
\*     P (1 + r/n)^k = P * (n * 2^-e + m)^k / (n^k * 2^(-e k)).
GrowthNumerator(obj, years) ==
    BPow(BAdd(BShl(BFromInt(obj.compound_frequency), -obj.interest_rate.e),
              obj.interest_rate.m),
         obj.compound_frequency * years)
GrowthDenominator(obj, years) ==
    BPow(BFromInt(obj.compound_frequency), obj.compound_frequency * years)

\* |a - b| <= b / 2^40: the roundings of the rate, of the sum, of the power (its
\* base is off by 2^-53 at most, and the exponent stays below 2^7) and of the
\* product add up to less
Near(a, b) ==
    BCmp(BShl(IF BCmp(a, b) >= 0 THEN BSub(a, b) ELSE BSub(b, a), 40), b) <= 0

\* the float v is P (1 + r/n)^(n years) of obj to within 2^-40 of it
\* (both sides multiplied by the denominators)
NearFormula(v, obj, years) ==
    LET P == obj.principal_amount.v
        sh == v.e - P.e - obj.interest_rate.e * obj.compound_frequency * years
        L == BMul(v.m, GrowthDenominator(obj, years))
        R == BMul(P.m, GrowthNumerator(obj, years))
    IN IF sh >= 0 THEN Near(BShl(L, sh), R) ELSE Near(L, BShl(R, -sh))

\* C3: final_corpus(years) is principal * (1 + rate / frequency)^(frequency *
\* years): it is within double-precision rounding of the exact value of the
\* formula, and 100 at 12% compounded yearly gives 176.23 after 5 years
C3_FinalCorpusFormula ==
    Returned("final_corpus") =>
        /\ IsNum(ret.val)
        /\ NearFormula(ret.val, self, ret.years)
        /\ (/\ args.principal_amount = PyInt(100) /\ args.interest_rate = Lit_12_00
            /\ args.compound_frequency = 1 /\ ret.years = 5)
           => Fmt2(ret.val) = BFromInt(17623)

\* the scenario of the specification
C3_Witness ==
    /\ Returned("final_corpus") /\ ret.years = 5
    /\ args.principal_amount = PyInt(100) /\ args.interest_rate = Lit_12_00
    /\ args.compound_frequency = 1
    /\ Fmt2(ret.val) = BFromInt(17623)

\* C6 as claimed: final_corpus(0) == principal_amount
C6_ZeroYearsIsPrincipal ==
    (Returned("final_corpus") /\ ret.years = 0) => FEq(ret.val, self.principal_amount.v)

\* C6: final_corpus(0) is the principal as a float: the principal itself when it
\* is a float or an int that a binary64 holds, the nearest binary64 otherwise
C6_ZeroYearsIsFloatOfPrincipal ==
    (Returned("final_corpus") /\ ret.years = 0) =>
        /\ ret.val = float_of(self.principal_amount)
        /\ (self.principal_amount.t = "float" \/ BBitLen(self.principal_amount.v.m) <= Prec)
           => FEq(ret.val, self.principal_amount.v)

\* final_corpus(0) of an instance with a non-zero rate, compounded monthly, whose
\* principal is an int no binary64 holds
C6_Witness ==
    /\ Returned("final_corpus") /\ ret.years = 0
    /\ ~IsZero(self.interest_rate) /\ self.compound_frequency = 12
    /\ self.principal_amount = PyBigInt(1, FirstInexactInt)
    /\ ret.val = FRound(BShl(<<1>>, Prec), <<1>>, 0)

\* the rate of one compounding period is at least 2^-50, so that adding it to 1
\* is not lost in rounding
PeriodRateCounts(obj) ==
    FLe(FRound(<<1>>, <<1>>, -50), FDiv(obj.interest_rate, FInt(obj.compound_frequency)))
\* 1 + rate / frequency rounds to 1.0
PeriodRateLost(obj) ==
    FAdd(FInt(1), FDiv(obj.interest_rate, FInt(obj.compound_frequency))) = FInt(1)

\* C4 as claimed: with a positive interest rate, final_corpus(y1) < final_corpus(y2)
\* for all y1 < y2
C4_StrictlyIncreasing ==
    (Returned("final_corpus") /\ ~IsZero(self.interest_rate)) =>
        \A y1 \in 0..(ret.years - 1) : FLt(final_corpus(self, y1), ret.val)

\* C4: final_corpus never decreases with the years; it increases strictly when
\* the rate of one period is at least 2^-50, and is the same for all years when
\* the rate is lost in the rounding of 1 + rate / frequency
C4_IncreasingUnlessRateLost ==
    Returned("final_corpus") =>
        \A y1 \in 0..(ret.years - 1) : \A v1 \in {final_corpus(self, y1)} :
            /\ FLe(v1, ret.val)
            /\ PeriodRateCounts(self) => FLt(v1, ret.val)
            /\ PeriodRateLost(self) => FEq(v1, ret.val)

\* final_corpus(MaxYears) at 12% compounded monthly
C4_Witness ==
    /\ Returned("final_corpus") /\ ret.years = MaxYears
    /\ args.interest_rate = Lit_12_00 /\ self.compound_frequency = 12
    /\ PeriodRateCounts(self)
    /\ FLt(final_corpus(self, MaxYears - 1), ret.val)

(***************************************************************************)
(* inflation_adjusted_corpus                                               *)
(***************************************************************************)
\* C5: inflation_adjusted_corpus(years) <= final_corpus(years)
C5_AdjustedAtMostFinal ==
    Returned("inflation_adjusted_corpus") => FLe(ret.val, final_corpus(self, ret.years))

\* a corpus that inflation of 7% makes strictly smaller
C5_Witness ==
    /\ Returned("inflation_adjusted_corpus") /\ ret.years = MaxYears
    /\ args.inflation_rate = Lit_7_00
    /\ FLt(ret.val, final_corpus(self, ret.years))

\* C7: with an inflation rate of 0, inflation_adjusted_corpus(years) ==
\* final_corpus(years)
C7_ZeroInflationIsFinal ==
    (Returned("inflation_adjusted_corpus") /\ IsZero(self.inflation_rate)) =>
        FEq(ret.val, final_corpus(self, ret.years))

\* a corpus that grew, left as it is by an inflation rate of 0
C7_Witness ==
    /\ Returned("inflation_adjusted_corpus") /\ ret.years = MaxYears
    /\ IsZero(self.inflation_rate) /\ args.interest_rate = Lit_12_00
    /\ FLt(float_of(self.principal_amount), ret.val)

(***************************************************************************)
(* show_returns                                                            *)
(***************************************************************************)
\* the distinct items of a list in the order of their first occurrence
FirstOccurrences(list) ==
    LET first == {i \in 1..Len(list) : \A j \in 1..(i - 1) : list[j] # list[i]}
    IN [n \in 1..Cardinality(first) |->
           list[CHOOSE i \in first : Cardinality({h \in first : h < i}) = n - 1]]

\* how many times the list holds the year, and how many times the call ran the
\* method for it
Occurrences(list, years) == Cardinality({i \in 1..Len(list) : list[i] = years})
Invocations(calls, method, years) ==
    Cardinality({i \in 1..Len(calls) : calls[i].method = method /\ calls[i].years = years})

\* C8: show_returns gives a mapping whose keys are the distinct years of the list
\* in the order of their first occurrence, each with the pair (final_corpus(year),
\* inflation_adjusted_corpus(year)); an empty list gives an empty mapping
C8_ShowReturnsMapping ==
    (pc = "returned" /\ ret.method = "show_returns") =>
        /\ raised = None
        /\ ret.returns.keys = FirstOccurrences(ret.years_list)
        /\ Len(ret.returns.vals) = Len(ret.returns.keys)
        /\ \A i \in 1..Len(ret.returns.keys) :
              ret.returns.vals[i] = <<final_corpus(self, ret.returns.keys[i]),
                                      inflation_adjusted_corpus(self, ret.returns.keys[i])>>
        /\ ret.years_list = <<>> => ret.returns = EmptyDict

\* a list like [5, 1, 5]: unsorted, with a duplicate after another year
C8_Witness ==
    /\ Returned("show_returns")
    /\ ret.years_list = <<MaxYears, 1, MaxYears>>
    /\ ret.returns.keys = <<MaxYears, 1>>

\* C9 as claimed: for a year the list holds more than once, one call of
\* show_returns runs final_corpus once and inflation_adjusted_corpus once
C9_DuplicateComputedOnce ==
    Returned("show_returns") =>
        \A years \in Years :
            Occurrences(ret.years_list, years) > 1 =>
                /\ Invocations(ret.calls, "final_corpus", years) = 1
                /\ Invocations(ret.calls, "inflation_adjusted_corpus", years) = 1

\* C9: one call of show_returns runs inflation_adjusted_corpus once and
\* final_corpus twice for every occurrence of a year in the list
C9_ComputedPerOccurrence ==
    Returned("show_returns") =>
        \A years \in Years :
            /\ Invocations(ret.calls, "inflation_adjusted_corpus", years)
                   = Occurrences(ret.years_list, years)
            /\ Invocations(ret.calls, "final_corpus", years)
                   = 2 * Occurrences(ret.years_list, years)

\* a list like [5, 5, 1]: the duplicated year is computed again
C9_Witness ==
    /\ Returned("show_returns")
    /\ ret.years_list = <<MaxYears, MaxYears, 1>>
    /\ Invocations(ret.calls, "inflation_adjusted_corpus", MaxYears) = 2
    /\ Invocations(ret.calls, "final_corpus", MaxYears) = 4

(***************************************************************************)
(* The script                                                              *)
(***************************************************************************)
\* the string is a number: an optional sign, w digits, and after an optional
\* point f digits, with one digit at least
IsNumeral(str) ==
    \E sign \in 0..1, point \in 0..1, w \in 0..Len(str), f \in 0..Len(str) :
        /\ sign + w + point + f = Len(str)
        /\ w + f >= 1
        /\ sign = 1 => str[1] \in {"+", "-"}
        /\ \A i \in (sign + 1)..(sign + w) : IsDigit(str[i])
        /\ point = 1 => str[sign + w + 1] = "."
        /\ point = 0 => f = 0
        /\ \A i \in (sign + w + point + 1)..Len(str) : IsDigit(str[i])

\* the script has read a line
LineRead == pc \in {"amount", "constructed", "shown", "done"} \/ (pc = "failed" /\ raised # EOFError)

\* C10: for a line that is empty after stripping or is no number the principal is
\* 100 and the construction succeeds, the message being printed for the second
\* only; no ValueError is ever left raised; a line that is a number gives its
\* value, and when the constructor rejects it the AssertionError ends the script
\* without an instance, as does the EOFError of a missing line
C10_ScriptDefaultsOnBadInput ==
    /\ raised # ValueError
    /\ (pc = "failed" /\ raised = EOFError) => (self = None /\ investment_amount = None)
    /\ LineRead =>
          IF strip(line) = <<>> \/ ~IsNumeral(strip(line))
          THEN /\ investment_amount = PyInt(100)
               /\ pc # "failed"
               /\ pc # "amount" => self.principal_amount = PyInt(100)
               /\ (stdout # <<>> /\ stdout[1] = InvalidInputMessage) <=> strip(line) # <<>>
          ELSE /\ investment_amount = float(line)
               /\ ~(stdout # <<>> /\ stdout[1] = InvalidInputMessage)
               /\ (pc # "amount" /\ BelowMinimum(investment_amount))
                  => (pc = "failed" /\ raised = AssertionError /\ self = None)
               /\ (pc # "amount" /\ ~BelowMinimum(investment_amount))
                  => (pc # "failed" /\ self.principal_amount = investment_amount)

\* a line that is no number, after the report for the principal 100
C10_Witness ==
    /\ pc = "done" /\ line = <<"1", "x">>
    /\ investment_amount = PyInt(100) /\ self.principal_amount = PyInt(100)
    /\ stdout[1] = InvalidInputMessage

====
